---- MODULE Spec2Model ----
(***************************************************************************)
(* State-machine model of the snake-mp game server (src/server.js): the     *)
(* room registry, the lobby/running/ended round machine, the 20 Hz tick,    *)
(* the movement step with its collision rules, the spawn planner, the       *)
(* input buffer and the messages each handler sends.                        *)
(*                                                                          *)
(* Every handler of the server runs to completion on one thread, so every   *)
(* handler is one action.  Math.random() is an input: it is drawn from the  *)
(* values k / RandDen, for a few numerators k, and every expression that    *)
(* uses it is computed from the drawn value as the code computes it.        *)
(***************************************************************************)
EXTENDS Integers, Sequences, FiniteSets, TLC

(* ---------------------------- program constants ------------------------ *)
GRID == 20
TICK_HZ == 20
TICK_MS == 1000 \div TICK_HZ
ROUND_MS == 120000
\* BASE_CPS is 7.5 cells per second; the model keeps twice its value.
BASE_CPS_X2 == 15
RESPAWN_MS == 2000
FOOD_SCORE == 10
MAX_PLAYERS == 4

(* ------------------------------- bounds -------------------------------- *)
\* ticks a room's counter may reach under Spec and under SpecLobby
PlayTicks == 11
LobbyTicks == 1
\* Math.random() yields k / RandDen for the numerators k a specification names
RandDen == 16
\* the clock: Epoch + i * SmallStep + j * ROUND_MS, i <= MaxSmall, j <= MaxRounds
Epoch == 1000
SmallStep == RESPAWN_MS
MaxSmall == 1
MaxRounds == 1

VARIABLES
    now,         \* Date.now(), in ms
    nextId,      \* the id the next connection gets
    closed,      \* ids of the connections whose 'close' handler has run
    joinedRoom,  \* per connection: the code of its joinedRoom, 0 for null
    rooms,       \* the registry: code -> room
    timers,      \* per code: number of active setInterval timers of that room
    out,         \* messages sent by the latest handler
    stepLog,     \* moves resolved by the latest handler (one entry per player and step)
    spawnLog,    \* safeSpawn calls of the latest handler
    foodLog,     \* placeFood calls of the latest handler
    heard        \* what the latest handler was called for, under the specifications that record it

vars == <<now, nextId, closed, joinedRoom, rooms, timers, out, stepLog, spawnLog, foodLog, heard>>

(* ------------------------------- values -------------------------------- *)
Cell(x, y) == [x |-> x, y |-> y]
\* null for a cell (room.food) ; null for a timestamp is 0 (falsy, as in the code)
NoCell == Cell(-1, -1)

Min(a, b) == IF a < b THEN a ELSE b
Max(a, b) == IF a > b THEN a ELSE b
clamp(v, a, b) == Max(a, Min(b, v))

\* (Math.random() * n) | 0 for Math.random() = r / RandDen
RandIndex(r, n) == (r * n) \div RandDen
\* randInt(a, b) for Math.random() = r / RandDen
randInt(r, a, b) == ((r * (b - a + 1)) \div RandDen) + a

InBounds(c) == c.x >= 0 /\ c.y >= 0 /\ c.x < GRID /\ c.y < GRID

\* the cells in the order the double loop of randomFreeCell visits them
AllCells == [i \in 1..(GRID * GRID) |-> Cell((i - 1) % GRID, (i - 1) \div GRID)]

SeqToSet(s) == {s[i] : i \in 1..Len(s)}

\* cells covered by the bodies of the players of a room
BodyCells(room) == UNION {SeqToSet(room.players[i].snake) : i \in 1..Len(room.players)}

PlayerIds(room) == {room.players[i].id : i \in 1..Len(room.players)}
PlayerIdx(room, id) == CHOOSE i \in 1..Len(room.players) : room.players[i].id = id
PlayerOf(room, id) == room.players[PlayerIdx(room, id)]

\* recipients of broadcast(room, msg): the players whose socket is still open
Recipients(room) == {id \in PlayerIds(room) : id \notin closed}

\* a message of the server: kind, room, recipients, the player and time it is about
Msg(t, code, to, id, reason, time) ==
    [t |-> t, room |-> code, to |-> to, id |-> id, reason |-> reason, time |-> time]

(* ------------------------------ rooms ---------------------------------- *)
\* the room createRoom builds (code, createdAt and the constant cps left out)
NewRoom ==
    [state |-> "lobby", startedAt |-> 0, endsAt |-> 0, tickHandle |-> FALSE,
     food |-> NoCell, tick |-> 0, moveAcc |-> 0,
     players |-> <<>>, inputs |-> <<>>]

\* the player object of the create and join handlers (ws, name and color left out)
NewPlayer(id) ==
    [id |-> id, score |-> 0, alive |-> TRUE, respawnAt |-> 0,
     snake |-> <<>>, dir |-> Cell(1, 0), lastSeq |-> 0]

\* Map.set(id, player): a new key goes last, an existing key keeps its place
PlayersSet(players, id, player) ==
    IF \E i \in 1..Len(players) : players[i].id = id
    THEN [i \in 1..Len(players) |-> IF players[i].id = id THEN player ELSE players[i]]
    ELSE Append(players, player)

\* Map.delete(id) on the player map
PlayersDelete(players, id) == SelectSeq(players, LAMBDA p : p.id # id)

\* Map.set / Map.delete / Map.get on the input buffer (a function on the ids that have an entry)
InputsSet(inputs, id, v) == [k \in (DOMAIN inputs) \cup {id} |-> IF k = id THEN v ELSE inputs[k]]
InputsDelete(inputs, id) == [k \in (DOMAIN inputs) \ {id} |-> inputs[k]]

\* The state a handler works on: the room, the timers running for it, the values
\* Math.random() may yield (numerators over RandDen), and what the handler has
\* sent and logged so far.
World(code, room, timer, rand) ==
    [code |-> code, room |-> room, timer |-> timer, rand |-> rand,
     out |-> <<>>, steps |-> <<>>, spawns |-> <<>>, foods |-> <<>>]

Send(w, t, to, id, reason, time) ==
    [w EXCEPT !.out = Append(@, Msg(t, w.code, to, id, reason, time))]

broadcast(w, t, id, reason, time) == Send(w, t, Recipients(w.room), id, reason, time)

(* --------------------------- food and spawn ---------------------------- *)
\* a plausible slip: the bodies are left out of the occupied set
OccupiedFoodOnly(room) == IF room.food # NoCell THEN {room.food} ELSE {}

\* the set occ of randomFreeCell: every body cell and the food cell
Occupied(room) == BodyCells(room) \cup (IF room.food # NoCell THEN {room.food} ELSE {})

randomFreeCell(room, r) ==
    LET occ == Occupied(room)
        free == SelectSeq(AllCells, LAMBDA c : c \notin occ)
    IN  IF Len(free) > 0 THEN free[RandIndex(r, Len(free)) + 1] ELSE NoCell

\* placeFood, for every value Math.random() may yield
placeFood(w) ==
    { [w EXCEPT !.room.food = randomFreeCell(w.room, r),
                !.foods = Append(@, [cell |-> randomFreeCell(w.room, r),
                                     occ |-> BodyCells(w.room)])] : r \in w.rand }

presets ==
    << [x |-> 3, y |-> 3, dx |-> 1, dy |-> 0],
       [x |-> GRID - 4, y |-> 3, dx |-> -1, dy |-> 0],
       [x |-> 3, y |-> GRID - 4, dx |-> 1, dy |-> 0],
       [x |-> GRID - 4, y |-> GRID - 4, dx |-> -1, dy |-> 0] >>

\* the three cells (tail to head) of a body with its head at (x, y) facing (dx, dy)
SpawnCells(x, y, dx, dy) ==
    << Cell(x - dx * 2, y - dy * 2), Cell(x - dx, y - dy), Cell(x, y) >>

\* a plausible slip: a preset is taken when it is in bounds, whatever it covers
PresetOkInBoundsOnly(room, sp) ==
    LET cells == SpawnCells(sp.x, sp.y, sp.dx, sp.dy)
    IN  \A i \in 1..3 : InBounds(cells[i])

PresetOk(room, sp) ==
    LET cells == SpawnCells(sp.x, sp.y, sp.dx, sp.dy)
    IN  /\ \A i \in 1..3 : InBounds(cells[i])
        /\ \A i \in 1..3 : cells[i] \notin BodyCells(room)

\* the directions the random fallback of safeSpawn draws from
FallbackDirs == << Cell(1, 0), Cell(-1, 0), Cell(0, 1), Cell(0, -1) >>

\* One attempt of the random fallback, for the two values Math.random() yields in it.
FallbackAttempt(room, r1, r2) ==
    LET head == randomFreeCell(room, r1)
        d == FallbackDirs[randInt(r2, 0, 3) + 1]
        cells == SpawnCells(head.x, head.y, d.x, d.y)
    IN  [head |-> head, snake |-> cells, dir |-> d,
         ok |-> head # NoCell /\ \A i \in 1..3 : InBounds(cells[i])]

WorstCaseSpawn ==
    [snake |-> << Cell(1, 1), Cell(2, 1), Cell(3, 1) >>, dir |-> Cell(1, 0), kind |-> "worst"]

\* safeSpawn: the set of results it can return.  The first preset that fits is
\* returned; otherwise the first random attempt that is in bounds; the worst
\* case when there is no free cell or every one of the 300 attempts fails
\* (which the draws allow as soon as one draw fails).
safeSpawn(room, rand) ==
    LET fits == {i \in 1..Len(presets) : PresetOk(room, presets[i])}
    IN  IF fits # {}
        THEN LET sp == presets[CHOOSE i \in fits : \A j \in fits : i <= j]
             IN  { [snake |-> SpawnCells(sp.x, sp.y, sp.dx, sp.dy),
                    dir |-> Cell(sp.dx, sp.dy), kind |-> "preset"] }
        ELSE LET tries == {FallbackAttempt(room, r1, r2) : r1 \in rand, r2 \in rand}
             IN  { [snake |-> a.snake, dir |-> a.dir, kind |-> "random"] :
                       a \in {b \in tries : b.ok} }
                 \cup (IF \E a \in tries : ~a.ok THEN {WorstCaseSpawn} ELSE {})

\* "sp = safeSpawn(room); p.snake = sp.snake; p.dir = sp.dir" for player i, logged
SpawnPlayer(w, i, by) ==
    { [w EXCEPT !.room.players[i].snake = sp.snake,
                !.room.players[i].dir = sp.dir,
                !.spawns = Append(@, [id |-> w.room.players[i].id, by |-> by,
                                      snake |-> sp.snake, dir |-> sp.dir, kind |-> sp.kind,
                                      occ |-> BodyCells(w.room),
                                      others |-> UNION {SeqToSet(w.room.players[j].snake) :
                                                        j \in (1..Len(w.room.players)) \ {i}},
                                      food |-> w.room.food,
                                      wasAlive |-> w.room.players[i].alive,
                                      deadline |-> w.room.players[i].respawnAt])] :
      sp \in safeSpawn(w.room, w.rand) }

(* ------------------------------ the round ------------------------------ *)
\* the loop of startRound over the players, from player i on
RECURSIVE ResetPlayers(_, _)
ResetPlayers(w, i) ==
    IF i > Len(w.room.players)
    THEN {w}
    ELSE UNION { ResetPlayers([w2 EXCEPT !.room.players[i].alive = TRUE,
                                         !.room.players[i].respawnAt = 0,
                                         !.room.players[i].score = 0], i + 1) :
                 w2 \in SpawnPlayer(w, i, "start") }

\* a plausible slip: the test for a round that is already running is missing
startRoundAnyState(w) ==
    LET w1 == [w EXCEPT !.room.state = "running",
                        !.room.startedAt = now,
                        !.room.endsAt = now + ROUND_MS]
    IN  { [broadcast(w3, "room", 0, "", 0) EXCEPT !.room.tickHandle = TRUE,
                                                 !.timer = @ + 1] :
          w3 \in UNION { placeFood(w2) : w2 \in ResetPlayers(w1, 1) } }

startRound(w) ==
    IF w.room.state = "running"
    THEN {w}
    ELSE LET w1 == [w EXCEPT !.room.state = "running",
                             !.room.startedAt = now,
                             !.room.endsAt = now + ROUND_MS]
         IN  { [broadcast(w3, "room", 0, "", 0) EXCEPT !.room.tickHandle = TRUE,
                                                      !.timer = @ + 1] :
               w3 \in UNION { placeFood(w2) : w2 \in ResetPlayers(w1, 1) } }

\* a plausible slip: the timer is stopped but the state is left as it is
endRoundStaysRunning(w) ==
    IF w.room.state # "running"
    THEN w
    ELSE broadcast([w EXCEPT !.room.tickHandle = FALSE,
                             !.timer = IF w.room.tickHandle THEN @ - 1 ELSE @],
                   "ended", 0, "", 0)

\* a plausible slip: the round ends but its timer is left running
endRoundKeepsTimer(w) ==
    IF w.room.state # "running"
    THEN w
    ELSE broadcast([w EXCEPT !.room.state = "ended"], "ended", 0, "", 0)

endRound(w) ==
    IF w.room.state # "running"
    THEN w
    ELSE broadcast([w EXCEPT !.room.state = "ended",
                             !.room.tickHandle = FALSE,
                             !.timer = IF w.room.tickHandle THEN @ - 1 ELSE @],
                   "ended", 0, "", 0)

killPlayer(w, i, reason) ==
    IF ~w.room.players[i].alive
    THEN w
    ELSE broadcast([w EXCEPT !.room.players[i].alive = FALSE,
                             !.room.players[i].respawnAt = now + RESPAWN_MS,
                             !.room.players[i].snake = <<>>],
                   "death", w.room.players[i].id, reason, now + RESPAWN_MS)

maybeRespawn(w, i) ==
    LET p == w.room.players[i]
    IN  IF p.alive \/ p.respawnAt = 0 \/ now < p.respawnAt
        THEN {w}
        ELSE { broadcast([w2 EXCEPT !.room.players[i].alive = TRUE,
                                    !.room.players[i].respawnAt = 0],
                         "respawn", p.id, "", 0) :
               w2 \in SpawnPlayer(w, i, "respawn") }

\* "for (const p of room.players.values()) maybeRespawn(room, p)", from player i on
RECURSIVE RespawnPlayers(_, _)
RespawnPlayers(w, i) ==
    IF i > Len(w.room.players)
    THEN {w}
    ELSE UNION { RespawnPlayers(w2, i + 1) : w2 \in maybeRespawn(w, i) }

(* ------------------------------- input --------------------------------- *)
\* a plausible slip: the buffered direction is taken whatever the player holds
applyInputAnyDir(p, inputDir) == inputDir

\* applyInput: the direction the player holds afterwards
applyInput(p, inputDir) ==
    IF inputDir.x = 0 - p.dir.x /\ inputDir.y = 0 - p.dir.y THEN p.dir ELSE inputDir

\* one player of the "apply latest inputs" loop of tick
ApplyLatest(room, p) ==
    IF ~p.alive \/ p.id \notin DOMAIN room.inputs
    THEN p
    ELSE LET inp == room.inputs[p.id]
         IN  [p EXCEPT !.dir = applyInput(p, inp.dir),
                       !.lastSeq = IF inp.seq > p.lastSeq THEN inp.seq ELSE @]

ApplyInputs(w) ==
    [w EXCEPT !.room.players =
        [i \in 1..Len(w.room.players) |-> ApplyLatest(w.room, w.room.players[i])]]

(* ---------------------------- movement step ---------------------------- *)
\* "compute next heads": one entry per alive player with a body, in map order
NextHeads(room) ==
    LET movers == SelectSeq([i \in 1..Len(room.players) |-> i],
                            LAMBDA i : room.players[i].alive /\ Len(room.players[i].snake) > 0)
    IN  [k \in 1..Len(movers) |->
            LET p == room.players[movers[k]]
                head == p.snake[Len(p.snake)]
            IN  [i |-> movers[k], x |-> head.x + p.dir.x, y |-> head.y + p.dir.y]]

StepEntry(w, m, body, result, after) ==
    LET p == w.room.players[m.i]
    IN  [room |-> w.code, id |-> p.id, from |-> p.snake, dir |-> p.dir, head |-> Cell(m.x, m.y),
         food |-> w.room.food, body |-> body, result |-> result,
         snake |-> after.snake, scoreBefore |-> p.score, scoreAfter |-> after.score]

\* a plausible slip: the upper wall is not tested
HitsWallNoTop(m) == m.x < 0 \/ m.x >= GRID \/ m.y >= GRID

\* the wall test of moveStep
HitsWall(m) == m.x < 0 \/ m.y < 0 \/ m.x >= GRID \/ m.y >= GRID

\* a plausible slip: the tail is moved although the snake ate
GrowButShift(p, c) == [p EXCEPT !.snake = Tail(Append(@, c)), !.score = @ + FOOD_SCORE]

\* "p.snake.push(...)" followed by the branch taken when the snake ate
Grow(p, c) == [p EXCEPT !.snake = Append(@, c), !.score = @ + FOOD_SCORE]

\* "p.snake.push(...)" followed by "p.snake.shift()"
Slide(p, c) == [p EXCEPT !.snake = Tail(Append(@, c))]

\* a plausible slip: the collision map is rebuilt from the bodies as they are
\* while the moves are being resolved
CollisionMapNow(w, body) == BodyCells(w.room)

\* the collision map a move is resolved against: the set built before the loop
CollisionMap(w, body) == body

\* one iteration of "resolve each move"
ResolveMove(w, m, body) ==
    LET p == w.room.players[m.i]
        c == Cell(m.x, m.y)
    IN  IF HitsWall(m)
        THEN LET w1 == killPlayer(w, m.i, "wall")
             IN  { [w1 EXCEPT !.steps = Append(@, StepEntry(w, m, body, "wall", w1.room.players[m.i]))] }
        ELSE IF c \in CollisionMap(w, body)
        THEN LET w1 == killPlayer(w, m.i, "body")
             IN  { [w1 EXCEPT !.steps = Append(@, StepEntry(w, m, body, "body", w1.room.players[m.i]))] }
        ELSE IF w.room.food # NoCell /\ m.x = w.room.food.x /\ m.y = w.room.food.y
        THEN LET q == Grow(p, c)
             IN  placeFood([w EXCEPT !.room.players[m.i] = q,
                                     !.steps = Append(@, StepEntry(w, m, body, "ate", q))])
        ELSE LET q == Slide(p, c)
             IN  { [w EXCEPT !.room.players[m.i] = q,
                             !.steps = Append(@, StepEntry(w, m, body, "moved", q))] }

RECURSIVE ResolveMoves(_, _, _, _)
ResolveMoves(w, next, body, k) ==
    IF k > Len(next)
    THEN {w}
    ELSE UNION { ResolveMoves(w2, next, body, k + 1) : w2 \in ResolveMove(w, next[k], body) }

moveStep(w) == ResolveMoves(w, NextHeads(w.room), BodyCells(w.room), 1)

(* -------------------------------- tick --------------------------------- *)
\* The accumulator in exact units of 1 / (TICK_HZ * BASE_CPS_X2) second:
\* a tick adds TICK_MS / 1000 s, a step lasts 1 / cps s.
AccUnit == TICK_HZ * BASE_CPS_X2
TickInc == AccUnit \div TICK_HZ
StepDur == (2 * AccUnit) \div BASE_CPS_X2

\* "while (room.moveAcc >= step) { apply inputs; moveStep(room); room.moveAcc -= step }"
\* a plausible slip: the loop runs while the accumulator exceeds a step duration
RECURSIVE MoveLoopStrict(_)
MoveLoopStrict(w) ==
    IF w.room.moveAcc <= StepDur
    THEN {w}
    ELSE UNION { MoveLoopStrict([w2 EXCEPT !.room.moveAcc = @ - StepDur]) :
                 w2 \in moveStep(ApplyInputs(w)) }

RECURSIVE MoveLoop(_)
MoveLoop(w) ==
    IF w.room.moveAcc < StepDur
    THEN {w}
    ELSE UNION { MoveLoop([w2 EXCEPT !.room.moveAcc = @ - StepDur]) :
                 w2 \in moveStep(ApplyInputs(w)) }

\* a plausible slip: the dead are respawned before the end of the round is tested
tickRespawnsFirst(w) ==
    IF w.room.state # "running"
    THEN {w}
    ELSE LET w1 == [w EXCEPT !.room.tick = @ + 1]
         IN  IF w1.room.endsAt # 0 /\ now >= w1.room.endsAt
             THEN { endRound(w2) : w2 \in RespawnPlayers(w1, 1) }
             ELSE { broadcast(w4, "state", 0, "", now) :
                    w4 \in UNION { MoveLoop([ApplyInputs(w2) EXCEPT
                                       !.room.moveAcc = Min(@ + TickInc, StepDur * 2)]) :
                                   w2 \in RespawnPlayers(w1, 1) } }

tick(w) ==
    IF w.room.state # "running"
    THEN {w}
    ELSE LET w1 == [w EXCEPT !.room.tick = @ + 1]
         IN  IF w1.room.endsAt # 0 /\ now >= w1.room.endsAt
             THEN {endRound(w1)}
             ELSE { broadcast(w4, "state", 0, "", now) :
                    w4 \in UNION { MoveLoop([ApplyInputs(w2) EXCEPT
                                       !.room.moveAcc = Min(@ + TickInc, StepDur * 2)]) :
                                   w2 \in RespawnPlayers(w1, 1) } }

(* ------------------------------ actions -------------------------------- *)
\* Every action takes the bounds B of the specification it runs under:
\*   B.conns  connections that ever open           B.codes  codes makeCode produces
\*   B.create, B.join, B.start, B.send, B.close  the connections that send each
\*            kind of message (send: input and ping) or close
\*   B.fresh  connections that only ever join (see JoinsNext)
\*   B.ticks  largest tick counter of a room        B.dirs   msg.dir of input messages
\*   B.seqs   msg.seq of input messages             B.rand   values of Math.random()
\*   B.delays the amounts by which the clock moves on
\*   B.trace  whether the handlers note what they were called for (heard)
Open(id) == id < nextId /\ id \notin closed

\* what a handler leaves behind: its room, the timers, and what it sent and logged
Commit(w) ==
    /\ rooms' = [c \in (DOMAIN rooms) \cup {w.code} |-> IF c = w.code THEN w.room ELSE rooms[c]]
    /\ timers' = [timers EXCEPT ![w.code] = w.timer]
    /\ out' = w.out
    /\ stepLog' = w.steps
    /\ spawnLog' = w.spawns
    /\ foodLog' = w.foods

NoLogs == stepLog' = <<>> /\ spawnLog' = <<>> /\ foodLog' = <<>>

\* the handler that runs notes the event t it handles and the connection (or the
\* room code, for a timer) the event comes from
Told(t, id) == heard' = IF heard.on THEN [on |-> TRUE, t |-> t, id |-> id] ELSE heard

\* wss.on('connection'): the connection gets the next id and is sent 'hello'
Connect(B) ==
    /\ nextId <= B.conns
    /\ nextId' = nextId + 1
    /\ out' = << Msg("hello", 0, {nextId}, nextId, "", 0) >>
    /\ NoLogs
    /\ Told("connection", nextId)
    /\ UNCHANGED <<now, closed, joinedRoom, rooms, timers>>

\* the player a create or join message puts into the room, spawned
Enter(w, id, by) ==
    LET w1 == [w EXCEPT !.room.players = PlayersSet(@, id, NewPlayer(id))]
    IN  SpawnPlayer(w1, PlayerIdx(w1.room, id), by)

Joined(w, id) == broadcast(Send(w, "joined", {id}, id, "", 0), "players", 0, "", 0)

\* msg.t === 'create'
Create(B, id) ==
    /\ Open(id)
    /\ \E code \in (1..B.codes) \ DOMAIN rooms :
       \E w \in UNION { placeFood(w1) : w1 \in Enter(World(code, NewRoom, 0, B.rand), id, "create") } :
          /\ Commit(Joined(w, id))
          /\ joinedRoom' = [joinedRoom EXCEPT ![id] = code]
    /\ Told("create", id)
    /\ UNCHANGED <<now, nextId, closed>>

\* The connections of B.fresh send nothing but join messages and are
\* interchangeable until they have joined a room: of those that have not, the
\* one with the least id joins first.
JoinsNext(B, id) ==
    id \in B.fresh /\ joinedRoom[id] = 0
        => \A k \in B.fresh : (k < id /\ Open(k)) => joinedRoom[k] # 0

\* a plausible slip: the cap is tested with > instead of >=
RoomFullOffByOne(room) == Len(room.players) > MAX_PLAYERS

\* "room.players.size >= 4"
RoomFull(room) == Len(room.players) >= MAX_PLAYERS

\* msg.t === 'join'
Join(B, id, code) ==
    /\ Open(id)
    /\ JoinsNext(B, id)
    /\ IF code \notin DOMAIN rooms
       THEN /\ out' = << Msg("error", 0, {id}, id, "no room", 0) >>
            /\ NoLogs
            /\ UNCHANGED <<joinedRoom, rooms, timers>>
       ELSE IF RoomFull(rooms[code])
       THEN /\ out' = << Msg("error", 0, {id}, id, "full", 0) >>
            /\ NoLogs
            /\ UNCHANGED <<joinedRoom, rooms, timers>>
       ELSE \E w1 \in Enter(World(code, rooms[code], timers[code], B.rand), id, "join") :
            \E w \in (IF w1.room.food = NoCell THEN placeFood(w1) ELSE {w1}) :
               /\ Commit(Joined(w, id))
               /\ joinedRoom' = [joinedRoom EXCEPT ![id] = code]
    /\ Told("join", id)
    /\ UNCHANGED <<now, nextId, closed>>

\* msg.t === 'start'
Start(B, id) ==
    /\ Open(id)
    /\ joinedRoom[id] # 0
    /\ \E w \in startRound(World(joinedRoom[id], rooms[joinedRoom[id]],
                                  timers[joinedRoom[id]], B.rand)) :
          Commit(w)
    /\ Told("start", id)
    /\ UNCHANGED <<now, nextId, closed, joinedRoom>>

\* msg.t === 'ping'
Ping(id) ==
    /\ Open(id)
    /\ out' = << Msg("pong", 0, {id}, id, "", 0) >>
    /\ NoLogs
    /\ Told("ping", id)
    /\ UNCHANGED <<now, nextId, closed, joinedRoom, rooms, timers>>

\* msg.t === 'input' with a dir whose x and y are numbers
Input(id, dir, seq) ==
    /\ Open(id)
    /\ joinedRoom[id] # 0
    /\ LET code == joinedRoom[id]
           room == rooms[code]
           inp == [dir |-> Cell(clamp(dir.x, -1, 1), clamp(dir.y, -1, 1)), seq |-> seq]
           r1 == [room EXCEPT !.inputs = InputsSet(@, id, inp)]
           r2 == IF id \in PlayerIds(r1) /\ seq > PlayerOf(r1, id).lastSeq
                 THEN [r1 EXCEPT !.players[PlayerIdx(r1, id)].lastSeq = seq]
                 ELSE r1
       IN  Commit(World(code, r2, timers[code], {}))
    /\ Told("input", id)
    /\ UNCHANGED <<now, nextId, closed, joinedRoom>>

\* ws.on('close')
Close(id) ==
    /\ Open(id)
    /\ closed' = closed \cup {id}
    /\ IF joinedRoom[id] = 0
       THEN /\ out' = <<>>
            /\ UNCHANGED <<rooms, timers>>
       ELSE LET code == joinedRoom[id]
                room == [rooms[code] EXCEPT !.inputs = InputsDelete(@, id),
                                            !.players = PlayersDelete(@, id)]
            IN  IF Len(room.players) = 0
                THEN /\ rooms' = [c \in (DOMAIN rooms) \ {code} |-> rooms[c]]
                     /\ timers' = [timers EXCEPT ![code] = IF room.tickHandle THEN @ - 1 ELSE @]
                     /\ out' = <<>>
                ELSE /\ rooms' = [rooms EXCEPT ![code] = room]
                     /\ out' = << Msg("players", code, {p \in PlayerIds(room) : p \notin closed'}, 0, "", 0) >>
                     /\ UNCHANGED timers
    /\ NoLogs
    /\ Told("close", id)
    /\ UNCHANGED <<now, nextId, joinedRoom>>

\* the setInterval callback of a room: tick(room)
Tick(B, code) ==
    /\ code \in DOMAIN rooms
    /\ timers[code] > 0
    /\ rooms[code].tick < B.ticks
    /\ \E w \in tick(World(code, rooms[code], timers[code], B.rand)) : Commit(w)
    /\ Told("tick", code)
    /\ UNCHANGED <<now, nextId, closed, joinedRoom>>

\* the wall clock moves on by one of the delays of B: by SmallStep at most
\* MaxSmall times in a row, by the length of a round at most MaxRounds times
Advance(B) ==
    /\ \E d \in B.delays :
          /\ IF d = ROUND_MS
             THEN (now - Epoch) \div ROUND_MS < MaxRounds
             ELSE ((now - Epoch) % ROUND_MS) \div SmallStep < MaxSmall
          /\ now' = now + d
    /\ out' = <<>>
    /\ NoLogs
    /\ Told("clock", 0)
    /\ UNCHANGED <<nextId, closed, joinedRoom, rooms, timers>>

\* the state after the server has started: no connection, no room
InitOf(B) ==
    /\ now = Epoch
    /\ nextId = 1
    /\ closed = {}
    /\ joinedRoom = [id \in 1..B.conns |-> 0]
    /\ rooms = <<>>
    /\ timers = [c \in 1..B.codes |-> 0]
    /\ out = <<>>
    /\ stepLog = <<>>
    /\ spawnLog = <<>>
    /\ foodLog = <<>>
    /\ heard = [on |-> B.trace, t |-> "", id |-> 0]

NextOf(B) ==
    \/ Connect(B)
    \/ \E id \in B.create : Create(B, id)
    \/ \E id \in B.join, code \in 1..B.codes : Join(B, id, code)
    \/ \E id \in B.start : Start(B, id)
    \/ \E id \in B.send : Ping(id)
    \/ \E id \in B.send, dir \in B.dirs, seq \in B.seqs : Input(id, dir, seq)
    \/ \E id \in B.close : Close(id)
    \/ \E code \in 1..B.codes : Tick(B, code)
    \/ Advance(B)

(* --------------------------- specifications ---------------------------- *)
\* Spec: one connection plays a round for PlayTicks ticks; it turns, and sends
\* zero, diagonal and out-of-range directions.
PlayBounds ==
    [conns |-> 1, codes |-> 1, ticks |-> PlayTicks,
     create |-> {1}, join |-> {1}, start |-> {1}, send |-> {1}, close |-> {1},
     fresh |-> {},
     dirs |-> { Cell(0, -1), Cell(0, 0), Cell(2, 2) },
     seqs |-> {1},
     rand |-> {0, 3}, delays |-> {SmallStep, ROUND_MS}, trace |-> FALSE]

Init == InitOf(PlayBounds)
Next == NextOf(PlayBounds)
Spec == Init /\ [][Next]_vars

\* SpecLobby: one connection more than a room holds; the clock moves in small
\* steps only and a running room is ticked at most LobbyTicks times.
LobbyBounds ==
    [conns |-> MAX_PLAYERS + 1, codes |-> 1, ticks |-> LobbyTicks,
     create |-> {1}, join |-> 1..(MAX_PLAYERS + 1), start |-> {1, 2}, send |-> {1},
     close |-> {1, 2}, fresh |-> 3..(MAX_PLAYERS + 1),
     dirs |-> { Cell(0, 1) },
     seqs |-> {1},
     rand |-> {0, 3}, delays |-> {SmallStep}, trace |-> FALSE]

InitLobby == InitOf(LobbyBounds)
NextLobby == NextOf(LobbyBounds)
SpecLobby == InitLobby /\ [][NextLobby]_vars

\* SpecStep: moveStep as a function of the room.  The room is drawn from the
\* running rooms with two players of 3 cells each in the StepWin x StepWin
\* corner of the grid at (0, 0): two bodies that share no cell, each player
\* heading anywhere but back into its own neck, the food on a free cell of the
\* corner.  The one action applies moveStep to it.
StepWin == 3
StepCells == { Cell(x, y) : x \in 0..(StepWin - 1), y \in 0..(StepWin - 1) }
Adjacent(a, b) ==
    \/ a.x = b.x /\ (a.y = b.y + 1 \/ b.y = a.y + 1)
    \/ a.y = b.y /\ (a.x = b.x + 1 \/ b.x = a.x + 1)
StepBodies ==
    { << a, b, c >> : a \in StepCells, b \in StepCells, c \in StepCells }
StepSnakes == { s \in StepBodies : Adjacent(s[1], s[2]) /\ Adjacent(s[2], s[3]) /\ s[1] # s[3] }
StepDirs(s) == { d \in { Cell(1, 0), Cell(-1, 0), Cell(0, 1), Cell(0, -1) } :
                   Cell(s[3].x + d.x, s[3].y + d.y) # s[2] }
StepPlayer(id, s, d) == [NewPlayer(id) EXCEPT !.snake = s, !.dir = d]
StepRoom(s1, d1, s2, d2, f) ==
    [NewRoom EXCEPT !.state = "running", !.startedAt = Epoch, !.endsAt = Epoch + ROUND_MS,
                    !.tickHandle = TRUE, !.food = f, !.tick = 1, !.moveAcc = StepDur,
                    !.players = << StepPlayer(1, s1, d1), StepPlayer(2, s2, d2) >>]

InitStep ==
    /\ now = Epoch
    /\ nextId = 3
    /\ closed = {}
    /\ joinedRoom = [id \in 1..2 |-> 1]
    /\ \E s1 \in StepSnakes, s2 \in StepSnakes :
          /\ SeqToSet(s1) \cap SeqToSet(s2) = {}
          /\ \E d1 \in StepDirs(s1), d2 \in StepDirs(s2) :
             \E f \in StepCells \ (SeqToSet(s1) \cup SeqToSet(s2)) :
                rooms = [c \in {1} |-> StepRoom(s1, d1, s2, d2, f)]
    /\ timers = [c \in {1} |-> 1]
    /\ out = <<>>
    /\ stepLog = <<>>
    /\ spawnLog = <<>>
    /\ foodLog = <<>>
    /\ heard = [on |-> FALSE, t |-> "", id |-> 0]

\* moveStep(room), once
MoveStepOnce ==
    /\ stepLog = <<>>
    /\ \E w \in moveStep(World(1, rooms[1], timers[1], {0, 3})) : Commit(w)
    /\ UNCHANGED <<now, nextId, closed, joinedRoom, heard>>

NextStep == MoveStepOnce
SpecStep == InitStep /\ [][NextStep]_vars

\* SpecRooms: two connections and two room codes.  The connections create
\* rooms and go from one room to the other, rounds are started and run out,
\* connections close and rooms are destroyed; a running room is ticked until
\* its counter is RoomTicks.  The handlers note what they were called for.
RoomTicks == 1
RoomsBounds ==
    [conns |-> 2, codes |-> 2, ticks |-> RoomTicks,
     create |-> {1, 2}, join |-> {2}, start |-> {1}, send |-> {1}, close |-> {1, 2},
     fresh |-> {},
     dirs |-> { Cell(0, 1) },
     seqs |-> {1},
     rand |-> {0}, delays |-> {ROUND_MS}, trace |-> TRUE]

InitRooms == InitOf(RoomsBounds)
NextRooms == NextOf(RoomsBounds)
SpecRooms == InitRooms /\ [][NextRooms]_vars

\* SpecTurn: one connection plays TurnTicks ticks of a round (two movement
\* steps) and sends any of the four turns; the snake of a round that has just
\* started heads left.  The handlers note what they were called for.
TurnTicks == 6
TurnBounds ==
    [conns |-> 1, codes |-> 1, ticks |-> TurnTicks,
     create |-> {1}, join |-> {1}, start |-> {1}, send |-> {1}, close |-> {1},
     fresh |-> {},
     dirs |-> { Cell(0, -1), Cell(1, 0), Cell(0, 1), Cell(-1, 0) },
     seqs |-> {1},
     rand |-> {0, 3}, delays |-> {SmallStep}, trace |-> TRUE]

InitTurn == InitOf(TurnBounds)
NextTurn == NextOf(TurnBounds)
SpecTurn == InitTurn /\ [][NextTurn]_vars

\* SpecLive: one connection and one room, with the fairness the server runs
\* under: an active timer keeps firing and the wall clock keeps moving on.
\* The bounds are placed so that they stop neither: a start request comes only
\* while the clock can still pass the end of the round it starts, and the
\* bound LiveTicks on the tick counter holds for the ticks before endsAt, not
\* for the tick that finds the round over.
LiveTicks == 2
LiveBounds ==
    [conns |-> 1, codes |-> 1, ticks |-> LiveTicks,
     create |-> {1}, join |-> {1}, start |-> {1}, send |-> {1}, close |-> {1},
     fresh |-> {},
     dirs |-> { Cell(0, -1) },
     seqs |-> {1},
     rand |-> {0, 3}, delays |-> {SmallStep, ROUND_MS}, trace |-> FALSE]

\* msg.t === 'start', sent while the clock has not made its last jump
StartLive(B, id) ==
    /\ (now - Epoch) \div ROUND_MS < MaxRounds
    /\ Start(B, id)

\* the setInterval callback of a room; at or after endsAt whatever the counter
TickLive(B, code) ==
    /\ code \in DOMAIN rooms
    /\ \/ Tick(B, code)
       \/ /\ rooms[code].state = "running"
          /\ now >= rooms[code].endsAt
          /\ Tick([B EXCEPT !.ticks = rooms[code].tick + 1], code)

InitLive == InitOf(LiveBounds)
NextLive ==
    \/ Connect(LiveBounds)
    \/ \E id \in LiveBounds.create : Create(LiveBounds, id)
    \/ \E id \in LiveBounds.join, code \in 1..LiveBounds.codes : Join(LiveBounds, id, code)
    \/ \E id \in LiveBounds.start : StartLive(LiveBounds, id)
    \/ \E id \in LiveBounds.send : Ping(id)
    \/ \E id \in LiveBounds.send, dir \in LiveBounds.dirs, seq \in LiveBounds.seqs :
          Input(id, dir, seq)
    \/ \E id \in LiveBounds.close : Close(id)
    \/ \E code \in 1..LiveBounds.codes : TickLive(LiveBounds, code)
    \/ Advance(LiveBounds)
SpecLive ==
    /\ InitLive
    /\ [][NextLive]_vars
    /\ WF_vars(\E code \in 1..LiveBounds.codes : TickLive(LiveBounds, code))
    /\ WF_vars(Advance(LiveBounds))

\* SpecFood: two connections in one room.  The first creates the room, the
\* second joins before or after the round is started by either, and the
\* round is played for FoodTicks ticks (three movement steps), so that food is
\* placed with one and with two bodies on the grid and is eaten while another
\* player's move of the same step is still to be resolved.
FoodTicks == 8
FoodBounds ==
    [conns |-> 2, codes |-> 1, ticks |-> FoodTicks,
     create |-> {1}, join |-> {2}, start |-> {1, 2}, send |-> {1, 2}, close |-> {1, 2},
     fresh |-> {},
     dirs |-> { Cell(0, 1) },
     seqs |-> {1},
     rand |-> {0, 3}, delays |-> {SmallStep}, trace |-> FALSE]

InitFood == InitOf(FoodBounds)
NextFood == NextOf(FoodBounds)
SpecFood == InitFood /\ [][NextFood]_vars

(* ------------------------------- claims -------------------------------- *)
Logged(log) == {log[k] : k \in 1..Len(log)}
LiveCodes == DOMAIN rooms
\* the players a transition keeps: same room code, same connection id
Kept == { <<c, id>> \in (DOMAIN rooms) \X (1..(MAX_PLAYERS + 1)) :
            /\ c \in DOMAIN rooms'
            /\ id \in PlayerIds(rooms[c])
            /\ id \in PlayerIds(rooms'[c]) }
AxisDirs == { Cell(1, 0), Cell(-1, 0), Cell(0, 1), Cell(0, -1) }

\* C1: in every reachable state every room of the registry has at most 4
\* players in its player map (and no id twice in it).
C1_RoomCap ==
    \A c \in LiveCodes :
        /\ Len(rooms[c].players) <= MAX_PLAYERS
        /\ Cardinality(PlayerIds(rooms[c])) = Len(rooms[c].players)

\* a join has just been refused by a room that holds 4 players
C1_Witness ==
    /\ \E c \in LiveCodes : Len(rooms[c].players) = MAX_PLAYERS
    /\ \E m \in Logged(out) : m.t = "error" /\ m.reason = "full"

\* C2 (as claimed): once a room is ended no event moves it out of ended.
C2_EndedIsTerminal ==
    [][\A c \in LiveCodes :
          (c \in DOMAIN rooms' /\ rooms[c].state = "ended") => rooms'[c].state = "ended"]_vars

\* C3 (as claimed): no event gives a killed player a non-empty body at a time
\* earlier than the respawn deadline recorded at its death.
C3_NoBodyBeforeDeadline ==
    [][\A k \in Kept :
          (/\ ~PlayerOf(rooms[k[1]], k[2]).alive
           /\ PlayerOf(rooms'[k[1]], k[2]).snake # <<>>)
          => now' >= PlayerOf(rooms[k[1]], k[2]).respawnAt]_vars

\* C4 (as claimed): every player's direction, and every direction a movement
\* step uses, is one of the four axis-aligned unit vectors.
C4_AxisDirections ==
    /\ \A c \in LiveCodes : \A i \in 1..Len(rooms[c].players) :
          rooms[c].players[i].dir \in AxisDirs
    /\ \A e \in Logged(stepLog) : e.dir \in AxisDirs

\* C5: every cell of the body of every alive player has both coordinates in
\* [0, GRID).
C5_BodiesInBounds ==
    \A c \in LiveCodes : \A i \in 1..Len(rooms[c].players) :
        rooms[c].players[i].alive =>
            \A k \in 1..Len(rooms[c].players[i].snake) : InBounds(rooms[c].players[i].snake[k])

\* a movement step has just killed a player at the wall while bodies are on the grid
C5_Witness ==
    /\ \E e \in Logged(stepLog) : e.result = "wall" /\ ~InBounds(e.head)
    /\ \E c \in LiveCodes : rooms[c].state = "running"

\* C6 (as claimed): the acknowledged sequence number of a connection's player
\* in a room never decreases from one state to the next.
C6_AckSeqMonotone ==
    [][\A k \in Kept :
          PlayerOf(rooms'[k[1]], k[2]).lastSeq >= PlayerOf(rooms[k[1]], k[2]).lastSeq]_vars

\* C7: a player that survives a movement step and whose new head is the food
\* cell at the moment it is resolved gains exactly 10 points and one cell (the
\* new head; the tail is kept); any other survivor keeps its score and its
\* length, loses its old tail cell and gets the new head.  The step's result is
\* the player's state after the tick.
C7_EatOrMove ==
    \A e \in Logged(stepLog) :
        e.snake # <<>> =>
            /\ IF e.head = e.food
               THEN /\ e.scoreAfter = e.scoreBefore + 10
                    /\ Len(e.snake) = Len(e.from) + 1
                    /\ e.snake = Append(e.from, e.head)
               ELSE /\ e.scoreAfter = e.scoreBefore
                    /\ Len(e.snake) = Len(e.from)
                    /\ e.snake = Tail(Append(e.from, e.head))
            /\ e.room \in LiveCodes
            /\ PlayerOf(rooms[e.room], e.id).snake = e.snake
            /\ PlayerOf(rooms[e.room], e.id).score = e.scoreAfter

\* a step in which a player has eaten
C7_Witness ==
    \E e \in Logged(stepLog) : e.snake # <<>> /\ e.head = e.food /\ e.scoreAfter = 10

\* C8: every cell placeFood chooses is, at the moment of placement, covered by
\* no player's body.
C8_FoodOnFreeCell ==
    \A e \in Logged(foodLog) : e.cell \notin e.occ

\* food has just been placed inside a movement step of a room with two bodies:
\* the player resolved first ate, the other player's move was still to be
\* resolved, and the bodies the placement avoided are the eater's with its new
\* head and the other player's as it was before its move
C8_Witness ==
    \E k \in 1..Len(stepLog) : \E k2 \in 1..Len(stepLog) :
        /\ k < k2
        /\ stepLog[k].result = "ate"
        /\ stepLog[k2].id # stepLog[k].id
        /\ stepLog[k2].from # <<>>
        /\ \E e \in Logged(foodLog) :
              /\ e.cell # NoCell
              /\ e.occ = SeqToSet(stepLog[k].snake) \cup SeqToSet(stepLog[k2].from)

\* food has just been placed at the start of a round with two bodies on the grid
C8_WitnessStart ==
    /\ Len(spawnLog) = 2
    /\ \A k \in 1..Len(spawnLog) : spawnLog[k].by = "start"
    /\ \E e \in Logged(foodLog) : e.cell # NoCell /\ Cardinality(e.occ) = 6

\* C9: when, in one movement step, the next heads of two alive players are the
\* same in-bounds cell and no body covered that cell before the step, neither
\* of the two is killed and both bodies end with that cell as head.
C9_PassThrough ==
    \A e1 \in Logged(stepLog) : \A e2 \in Logged(stepLog) :
        (/\ e1.id # e2.id
         /\ e1.head = e2.head
         /\ InBounds(e1.head)
         /\ e1.head \notin e1.body)
        => /\ e1.snake # <<>>
           /\ e1.snake[Len(e1.snake)] = e1.head
           /\ PlayerOf(rooms[e1.room], e1.id).alive
           /\ PlayerOf(rooms[e1.room], e1.id).snake = e1.snake

\* two players have just moved their heads onto the same free cell
C9_Witness ==
    \E e1 \in Logged(stepLog) : \E e2 \in Logged(stepLog) :
        /\ e1.id # e2.id
        /\ e1.head = e2.head
        /\ InBounds(e1.head)
        /\ e1.head \notin e1.body
        /\ PlayerOf(rooms[e1.room], e1.id).alive
        /\ PlayerOf(rooms[e2.room], e2.id).alive

\* C10 (as claimed): every body safeSpawn returns is 3 in-bounds cells none of
\* which is a cell of another player's body at the time of the call.
C10_SpawnNoOverlap ==
    \A e \in Logged(spawnLog) :
        /\ Len(e.snake) = 3
        /\ \A k \in 1..3 : InBounds(e.snake[k]) /\ e.snake[k] \notin e.others

\* C10 (amended): every body safeSpawn returns is 3 in-bounds cells; a body
\* taken from a preset covers no cell of any body; a body of the random
\* fallback has its head on a cell that is on no body and is not the food.
C10_SpawnAmended ==
    \A e \in Logged(spawnLog) :
        /\ Len(e.snake) = 3
        /\ \A k \in 1..3 : InBounds(e.snake[k])
        /\ e.kind = "preset" => \A k \in 1..3 : e.snake[k] \notin e.occ
        /\ e.kind = "random" => e.snake[3] \notin e.occ /\ e.snake[3] # e.food

\* the random fallback has just returned a body that lies on another player's body
C10_Witness ==
    \E e \in Logged(spawnLog) :
        e.kind = "random" /\ \E k \in 1..3 : e.snake[k] \in e.others

\* the connections in the player map of room c whose socket is open
OpenMembers(c) == PlayerIds(rooms[c]) \ closed

\* C11 (as claimed): a room whose members have all closed is not in the
\* registry and has no active timer (a connection that created or joined a
\* room stays in its player map until it closes, so the members that ever
\* entered and are still open are the open ones of the map); and a step after
\* which a member of a room is still connected leaves the room in the registry.
C11_DestroyedWhenLastCloses ==
    /\ [](\A c \in DOMAIN timers :
             (c \in DOMAIN rooms => OpenMembers(c) # {})
             /\ (c \notin DOMAIN rooms => timers[c] = 0))
    /\ [][\A c \in DOMAIN rooms :
             PlayerIds(rooms[c]) \ closed' # {} => c \in DOMAIN rooms']_vars

\* C18: a room of the registry has one active timer when it is running and
\* none otherwise, its tickHandle says so, no timer is active for a code that
\* is not in the registry, and tick(room) for a room that is not running
\* returns the room as it is and sends nothing.
C18_TimerIffRunning ==
    \A c \in DOMAIN timers :
        IF c \in DOMAIN rooms
        THEN /\ timers[c] = (IF rooms[c].state = "running" THEN 1 ELSE 0)
             /\ rooms[c].tickHandle = (rooms[c].state = "running")
             /\ rooms[c].state # "running" =>
                   tick(World(c, rooms[c], timers[c], RoomsBounds.rand))
                       = { World(c, rooms[c], timers[c], RoomsBounds.rand) }
        ELSE timers[c] = 0

\* a tick has just ended a round and stopped the room's timer
C18_Witness ==
    /\ heard.t = "tick"
    /\ heard.id \in DOMAIN rooms
    /\ rooms[heard.id].state = "ended"
    /\ timers[heard.id] = 0
    /\ rooms[heard.id].tick > 0

\* C20 (as claimed): every connection id is a key of the player map of at most
\* one room, the room it last created or joined, and every message of a room
\* goes to connections whose room it is.
C20_MemberOfOneRoom ==
    /\ \A id \in DOMAIN joinedRoom :
          \A c \in DOMAIN rooms : id \in PlayerIds(rooms[c]) => joinedRoom[id] = c
    /\ \A m \in Logged(out) : m.room # 0 => \A id \in m.to : joinedRoom[id] = m.room

Opposite(d) == Cell(0 - d.x, 0 - d.y)

\* C12: a start request handled while the connection's room is running changes
\* nothing of any room (state, startedAt, endsAt, food, tick counter, players)
\* and nothing of the timers, and sends nothing.
C12_StartWhileRunning ==
    [][\A id \in DOMAIN joinedRoom :
          (/\ heard'.t = "start"
           /\ heard'.id = id
           /\ joinedRoom[id] \in DOMAIN rooms
           /\ rooms[joinedRoom[id]].state = "running")
          => /\ rooms' = rooms
             /\ timers' = timers
             /\ out' = <<>>
             /\ spawnLog' = <<>> /\ foodLog' = <<>>]_vars

\* a start request has just been handled for a room that has been running for
\* some ticks: nothing was sent, the tick counter and the one timer are there
C12_Witness ==
    /\ heard.t = "start"
    /\ out = <<>>
    /\ joinedRoom[heard.id] \in DOMAIN rooms
    /\ rooms[joinedRoom[heard.id]].state = "running"
    /\ rooms[joinedRoom[heard.id]].tick > 0
    /\ timers[joinedRoom[heard.id]] = 1

\* C14: a tick that does not end the round leaves a player that was alive and
\* had a buffered direction d with the direction it held when d is the exact
\* opposite of it, and with d otherwise (the two read points of the tick give
\* the same result); the direction is never changed to the opposite of the
\* one held.
C14_ReverseNotApplied ==
    [][\A k \in Kept :
          (/\ heard'.t = "tick"
           /\ heard'.id = k[1]
           /\ rooms'[k[1]].state = "running"
           /\ PlayerOf(rooms[k[1]], k[2]).alive
           /\ k[2] \in DOMAIN rooms[k[1]].inputs)
          => LET cur == PlayerOf(rooms[k[1]], k[2]).dir
                 d == rooms[k[1]].inputs[k[2]].dir
                 new == PlayerOf(rooms'[k[1]], k[2]).dir
             IN  /\ d = Opposite(cur) => new = cur
                 /\ d # Opposite(cur) => new = d
                 /\ new = Opposite(cur) => new = cur]_vars

\* a tick with a movement step has just run for a player whose buffered
\* direction is the opposite of the one it holds (and held before the tick)
C14_Witness ==
    /\ heard.t = "tick"
    /\ stepLog # <<>>
    /\ \E c \in LiveCodes : \E i \in 1..Len(rooms[c].players) :
          LET p == rooms[c].players[i]
          IN  /\ p.alive
              /\ p.dir \in AxisDirs
              /\ p.id \in DOMAIN rooms[c].inputs
              /\ rooms[c].inputs[p.id].dir = Opposite(p.dir)

\* the bodies safeSpawn takes from the presets
PresetBodies == { SpawnCells(presets[i].x, presets[i].y, presets[i].dx, presets[i].dy) :
                    i \in 1..Len(presets) }

\* C16 (as claimed): a movement step never takes the head of a body that has
\* moved since it was spawned into the cell behind the head (the neck), which
\* is where the exact reverse of the direction of the previous step leads.
C16_NoReverseBetweenSteps ==
    \A e \in Logged(stepLog) :
        (Len(e.from) >= 2 /\ e.from \notin PresetBodies)
        => e.head # e.from[Len(e.from) - 1]

\* C13: a tick that fires at a time >= endsAt adds one to the tick counter,
\* makes the room ended, stops its timer and sends one 'ended' message to the
\* members, and changes nothing else of the room (no respawn, no input
\* applied, no movement step, no food, no 'state' message); every 'state'
\* message carries a time earlier than the endsAt of its room.
C13_EndingTick ==
    /\ [](\A m \in Logged(out) :
             m.t = "state" => m.room \in DOMAIN rooms /\ m.time < rooms[m.room].endsAt)
    /\ [][\A c \in DOMAIN rooms :
             (/\ c \in DOMAIN rooms'
              /\ rooms'[c].tick = rooms[c].tick + 1
              /\ now >= rooms[c].endsAt)
             => /\ rooms'[c] = [rooms[c] EXCEPT !.tick = @ + 1, !.state = "ended",
                                                !.tickHandle = FALSE]
                /\ timers'[c] = timers[c] - 1
                /\ out' = << Msg("ended", c, Recipients(rooms[c]), 0, "", 0) >>
                /\ stepLog' = <<>> /\ spawnLog' = <<>> /\ foodLog' = <<>>]_vars

\* a tick has just ended the round of a room in which a dead player's respawn
\* deadline has passed and an input is buffered: the player is still dead
C13_Witness ==
    /\ Len(out) = 1
    /\ out[1].t = "ended"
    /\ out[1].room \in DOMAIN rooms
    /\ LET room == rooms[out[1].room]
       IN  /\ room.state = "ended"
           /\ timers[out[1].room] = 0
           /\ \E i \in 1..Len(room.players) :
                 /\ ~room.players[i].alive
                 /\ room.players[i].respawnAt # 0
                 /\ room.players[i].respawnAt <= now
                 /\ room.players[i].id \in DOMAIN room.inputs

\* C19: in the exact units of the accumulator, no handler resolves more than
\* two moves of one player (a tick performs at most two movement steps), and
\* the accumulator of every room is >= 0 and less than one step duration.
C19_StepsPerTick ==
    /\ \A e \in Logged(stepLog) :
          Cardinality({ k \in 1..Len(stepLog) : stepLog[k].id = e.id }) <= 2
    /\ \A c \in LiveCodes : rooms[c].moveAcc >= 0 /\ rooms[c].moveAcc < StepDur

\* a tick has just performed a movement step with the accumulator at exactly
\* one step duration, and has left it at 0
C19_Witness ==
    /\ stepLog # <<>>
    /\ \E c \in LiveCodes :
          rooms[c].state = "running" /\ rooms[c].moveAcc = 0 /\ rooms[c].tick > 0

\* the result of one movement step for a player: killed or not and why, its
\* body and its score
StepResult(w, id) ==
    LET p == PlayerOf(w.room, id)
    IN  [alive |-> p.alive, snake |-> p.snake, score |-> p.score,
         reasons |-> { m.reason : m \in { x \in Logged(w.out) : x.t = "death" /\ x.id = id } }]

\* the results moveStep can give for a room (one for each value placeFood may draw)
StepResults(room) ==
    { [id \in PlayerIds(room) |-> StepResult(w, id)] :
          w \in moveStep(World(1, room, 1, {0, 3})) }

\* the room with its players in the opposite order
Reordered(room) ==
    [room EXCEPT !.players = [i \in 1..Len(@) |-> @[Len(@) + 1 - i]]]

\* C17 (as claimed): a movement step gives the same result (who is killed and
\* why, the bodies, the scores) whether the players are processed in the
\* order of the player map or in the opposite order.
C17_OrderIndependent ==
    \A c \in LiveCodes : StepResults(rooms[c]) = StepResults(Reordered(rooms[c]))

Running(c) == c \in DOMAIN rooms /\ rooms[c].state = "running"

\* C15: with the timer firing and the clock moving on, a room that is running
\* is later ended or destroyed; a running room has endsAt = startedAt +
\* 120000 ms, and neither changes from one state of a round to the next.
C15_RoundEnds ==
    /\ [](\A c \in DOMAIN rooms :
             rooms[c].state = "running" => rooms[c].endsAt = rooms[c].startedAt + 120000)
    /\ [][\A c \in DOMAIN rooms :
             (Running(c) /\ c \in DOMAIN rooms' /\ rooms'[c].state = "running")
             => /\ rooms'[c].endsAt = rooms[c].endsAt
                /\ rooms'[c].startedAt = rooms[c].startedAt]_vars
    /\ \A c \in 1..LiveBounds.codes :
          Running(c) ~> (c \notin DOMAIN rooms \/ rooms[c].state = "ended")

\* a tick at or after endsAt has just ended a round that ran for some ticks
C15_Witness ==
    /\ Len(out) = 1
    /\ out[1].t = "ended"
    /\ out[1].room \in DOMAIN rooms
    /\ rooms[out[1].room].state = "ended"
    /\ rooms[out[1].room].tick > 1
    /\ now >= rooms[out[1].room].endsAt
    /\ rooms[out[1].room].endsAt = rooms[out[1].room].startedAt + ROUND_MS

====
